---- MODULE Spec2Model ----
(***************************************************************************)
(* Model of the Mininet console (mininet/cli.py, class CLI).               *)
(*                                                                         *)
(* Text is modelled as sequences of one-character strings, so that         *)
(* splitting, comment stripping and the address patterns are computed the  *)
(* way the code computes them.  The emulation engine (self.mn) is not part *)
(* of cli.py; its operations are modelled at their interface.              *)
(***************************************************************************)
EXTENDS Integers, Sequences, FiniteSets, TLC

VARIABLES pc, top, inputFile, stack, nameToNode, hosts, links,
          last, before, calls, msgs, raised,
          waiting, waitingBefore, tty, stdin, nodeStdin, nodeStdout,
          consumed, waitErrs,
          readlineInited, historyLoads, exitHooks, hasReadline, hasHistory

\* the state of the process and of its environment that outlives a console
procVars == <<readlineInited, historyLoads, exitHooks, hasReadline, hasHistory>>

vars == <<pc, top, inputFile, stack, nameToNode, hosts, links,
          last, before, calls, msgs, raised,
          waiting, waitingBefore, tty, stdin, nodeStdin, nodeStdout,
          consumed, waitErrs, procVars>>

-----------------------------------------------------------------------------
(* Bounds of the model *)

\* host suffixes 1..MaxSuffix are available to the initial topology
MaxSuffix == 3
\* the engine's host list and link list together are capped at this length
MaxEntities == 4
\* what the operator types while one node command runs (characters and
\* interrupt keys together) is capped at this number
MaxKeys == 1
\* in the specification of the node sessions, what may disturb one node
\* command (characters, interrupt keys and failed waits together) is capped
\* at this number
MaxEvents == 2

-----------------------------------------------------------------------------
(* Characters and strings *)

Digits == <<"0", "1", "2", "3", "4", "5", "6", "7", "8", "9">>

DigitChars == {Digits[i] : i \in 1..10}

HexChars == DigitChars \cup {"a", "b", "c", "d", "e", "f",
                             "A", "B", "C", "D", "E", "F"}

Letters == {"a", "b", "c", "d", "e", "f", "g", "h", "i", "j", "k", "l", "m",
            "n", "o", "p", "q", "r", "s", "t", "u", "v", "w", "x", "y", "z",
            "A", "B", "C", "D", "E", "F", "G", "H", "I", "J", "K", "L", "M",
            "N", "O", "P", "Q", "R", "S", "T", "U", "V", "W", "X", "Y", "Z"}

\* Cmd.identchars: letters, digits and the underscore
IdentChars == Letters \cup DigitChars \cup {"_"}

WhiteSpace == {" ", "\n", "\t"}

\* s[i:] of Python, 0-based start i
Drop(s, i) == SubSeq(s, i + 1, Len(s))

\* s[:i] of Python
Take(s, i) == SubSeq(s, 1, i)

\* does character c occur in s  ('c' in s)
Contains(s, c) == \E i \in 1..Len(s) : s[i] = c


RECURSIVE LStrip(_)
LStrip(s) == IF s # <<>> /\ s[1] \in WhiteSpace THEN LStrip(Tail(s)) ELSE s

RECURSIVE RStrip(_)
RStrip(s) == IF s # <<>> /\ s[Len(s)] \in WhiteSpace
             THEN RStrip(Take(s, Len(s) - 1)) ELSE s

\* str.strip()
Strip(s) == RStrip(LStrip(s))

\* length of the leading run of characters of s that are not in the set cs
RECURSIVE RunNotIn(_, _)
RunNotIn(s, cs) == IF s = <<>> \/ s[1] \in cs THEN 0
                   ELSE 1 + RunNotIn(Tail(s), cs)

\* length of the leading run of characters of s that are in the set cs
RECURSIVE RunIn(_, _)
RunIn(s, cs) == IF s = <<>> \/ s[1] \notin cs THEN 0
                ELSE 1 + RunIn(Tail(s), cs)

\* index of the first occurrence of c in s (s contains c)
IndexOf(s, c) == RunNotIn(s, {c}) + 1

\* str.split(): split on runs of whitespace, no empty tokens
RECURSIVE Split(_)
Split(s) == LET t == LStrip(s)
                n == RunNotIn(t, WhiteSpace)
            IN  IF t = <<>> THEN <<>>
                ELSE <<Take(t, n)>> \o Split(Drop(t, n))

\* str.split(c): split at every occurrence of c, empty parts kept
RECURSIVE SplitAll(_, _)
SplitAll(s, c) == IF Contains(s, c)
                  THEN <<Take(s, IndexOf(s, c) - 1)>> \o SplitAll(Drop(s, IndexOf(s, c)), c)
                  ELSE <<s>>

\* str.split(c, 1): split at the first occurrence of c (s contains c)
SplitFirst(s, c) == <<Take(s, IndexOf(s, c) - 1), Drop(s, IndexOf(s, c))>>

\* ' '.join(parts)
RECURSIVE Join(_, _)
Join(parts, sep) == IF parts = <<>> THEN <<>>
                    ELSE IF Len(parts) = 1 THEN parts[1]
                    ELSE parts[1] \o sep \o Join(Tail(parts), sep)

AllIn(s, cs) == \A i \in 1..Len(s) : s[i] \in cs

DigitVal(c) == (CHOOSE i \in 1..10 : Digits[i] = c) - 1

\* int(s) for a string of decimal digits
RECURSIVE StrToInt(_)
StrToInt(s) == IF s = <<>> THEN 0
               ELSE 10 * StrToInt(Take(s, Len(s) - 1)) + DigitVal(s[Len(s)])

\* str(n) for n >= 0
RECURSIVE IntToStr(_)
IntToStr(n) == IF n < 10 THEN <<Digits[n + 1]>>
               ELSE IntToStr(n \div 10) \o <<Digits[(n % 10) + 1]>>

\* '%02x' % n for 0 <= n < 256
HexDigits == Digits \o <<"a", "b", "c", "d", "e", "f">>

Hex02(n) == <<HexDigits[(n \div 16) + 1], HexDigits[(n % 16) + 1]>>

-----------------------------------------------------------------------------
(* Words of the command language *)

SP == <<" ">>
NL == <<"\n">>
W_addhost == <<"a", "d", "d", "h", "o", "s", "t">>
W_addlink == <<"a", "d", "d", "l", "i", "n", "k">>
W_link == <<"l", "i", "n", "k">>
W_source == <<"s", "o", "u", "r", "c", "e">>
W_exit == <<"e", "x", "i", "t">>
W_quit == <<"q", "u", "i", "t">>
W_up == <<"u", "p">>
W_down == <<"d", "o", "w", "n">>
W_sideways == <<"s", "i", "d", "e", "w", "a", "y", "s">>
W_foo == <<"f", "o", "o">>
W_iperf == <<"i", "p", "e", "r", "f">>
W_iperfudp == <<"i", "p", "e", "r", "f", "u", "d", "p">>
W_xterm == <<"x", "t", "e", "r", "m">>
W_gterm == <<"g", "t", "e", "r", "m">>
W_x == <<"x">>
W_switch == <<"s", "w", "i", "t", "c", "h">>
W_start == <<"s", "t", "a", "r", "t">>
W_stop == <<"s", "t", "o", "p">>
W_ping == <<"p", "i", "n", "g">>
W_dump == <<"d", "u", "m", "p">>
K_ip == <<"i", "p">>
K_mac == <<"m", "a", "c">>
K_cls == <<"c", "l", "s">>
K_bw == <<"b", "w">>
K_delay == <<"d", "e", "l", "a", "y">>
K_ttl == <<"t", "t", "l">>

\* node names
N_h1 == <<"h", "1">>
N_h2 == <<"h", "2">>
N_h3 == <<"h", "3">>
N_s1 == <<"s", "1">>
N_c0 == <<"c", "0">>
N_x == <<"x">>
N_h9 == <<"h", "9">>
N_zz == <<"z", "z">>

\* the private addressing block of do_addhost: '10.0.0.'
BlockPrefix == <<"1", "0", ".", "0", ".", "0", ".">>

BlockIP(k) == BlockPrefix \o IntToStr(k)

IP_999 == BlockPrefix \o <<"9", "9", "9">>
IP_short == <<"1", "0", ".", "0", ".", "0">>
IP_long == BlockPrefix \o <<"1", "0", "0", "0">>
IP_alpha == <<"1", "0", ".", "0", ".", "0", ".", "a">>
IP_pad == BlockPrefix \o <<"0", "2">>
IP_other == <<"1", "0", ".", "1", ".", "0", ".", "1">>
MAC_09 == <<"0", "0", ":", "0", "0", ":", "0", "0", ":", "0", "0", ":", "0", "0", ":", "0", "9">>
MAC_five == <<"0", "0", ":", "0", "0", ":", "0", "0", ":", "0", "0", ":", "0", "9">>
MAC_bad == <<"0", "0", ":", "0", "0", ":", "0", "0", ":", "0", "0", ":", "0", "0", ":", "0", "g">>
V_10 == <<"1", "0">>
V_5ms == <<"5", "m", "s">>

\* "key=value"
KV(k, v) == k \o <<"=">> \o v

\* words joined by single blanks
Words(ws) == Join(ws, SP)

-----------------------------------------------------------------------------
(* Files that `source` may be given *)

P_f == <<"f">>
P_g == <<"g">>
P_r == <<"r">>
P_n == <<"n">>
P_e == <<"e">>
P_o == <<"o">>
P_h == <<"h">>

\* "ok": opens and reads; "missing": open() raises IOError;
\* "readerr": opens, then readline() raises IOError
FileKind(path) == IF path \in {P_f, P_n, P_e, P_o, P_h} THEN "ok"
                  ELSE IF path = P_r THEN "readerr"
                  ELSE "missing"

\* the lines of a readable file, each ending in a newline
FileLines(path) ==
    IF path = P_f
    THEN << Words(<<W_link, N_h1, N_s1, W_down>>) \o SP \o <<"#", "c">> \o NL,
            Words(<<W_link, N_h1, N_s1, W_up>>) \o NL >>
    ELSE IF path = P_n
    THEN << Words(<<W_source, P_g>>) \o NL,
            Words(<<W_link, N_h1, N_s1, W_up>>) \o NL >>
    ELSE IF path = P_e
    THEN << Words(<<N_h2, W_ping, N_h1>>) \o NL,
            W_exit \o NL,
            Words(<<W_link, N_h1, N_s1, W_down>>) \o NL >>
    ELSE IF path = P_h
    THEN << Words(<<N_h1, W_ping, N_h2>>) \o NL >>
    ELSE IF path = P_o
    THEN << Words(<<W_source, P_f>>) \o NL,
            Words(<<W_link, N_h1, N_s1, W_down>>) \o NL >>
    ELSE <<>>

\* the lines an operator may type at the prompt
InputLines ==
    { Words(<<W_addhost, N_h3>>),
      Words(<<W_addhost, N_h1>>),
      Words(<<W_addhost, N_s1, KV(K_ip, IP_short)>>),
      Words(<<W_addhost, N_c0, KV(K_mac, MAC_09)>>),
      Words(<<W_addhost, N_x, KV(K_ip, IP_999)>>),
      Words(<<W_addhost, N_x, KV(K_ip, IP_short)>>),
      Words(<<W_addhost, N_x, KV(K_ip, IP_alpha)>>),
      Words(<<W_addhost, N_x, KV(K_ip, IP_long)>>),
      Words(<<W_addhost, N_x, KV(K_mac, MAC_five)>>),
      Words(<<W_addhost, N_x, KV(K_mac, MAC_bad)>>),
      Words(<<W_addhost, N_x, KV(K_ip, BlockIP(2)), KV(K_mac, MAC_09), KV(K_cls, W_foo)>>),
      Words(<<W_addhost, N_x, KV(K_ttl, V_10)>>),
      W_addhost,
      Words(<<W_addlink, N_h1, N_s1, KV(K_bw, V_10), KV(K_delay, V_5ms)>>),
      Words(<<W_addlink, N_h2, N_s1>>),
      Words(<<W_addlink, N_h1, N_zz>>),
      Words(<<W_addlink, N_zz, N_s1, KV(K_bw, V_10)>>),
      Words(<<W_addlink, N_h1>>),
      Words(<<W_link, N_h1, N_s1, W_up>>),
      Words(<<W_link, N_h1, N_s1, W_sideways>>),
      Words(<<W_link, N_h1, N_s1>>),
      Words(<<W_link, N_h1, N_s1, W_up, W_down>>),
      Words(<<W_link, N_h1, N_s1, W_down>>),
      Words(<<W_link, N_h1, N_s1, W_down>>) \o SP \o <<"#">> \o W_foo,
      Words(<<W_source, P_f>>),
      Words(<<W_source, P_g>>),
      Words(<<W_source, P_r>>),
      Words(<<W_source, P_n>>),
      W_source,
      W_exit,
      W_foo,
      <<>>,
      Words(<<W_addhost, W_exit>>),
      N_h1,
      Words(<<N_h1, W_ping, N_h2>>) \o SP \o SP \o Words(<<N_s1, N_zz>>),
      Words(<<W_source, P_e>>),
      Words(<<W_source, P_o>>),
      Words(<<W_iperf, N_h1, N_zz>>),
      Words(<<W_iperf, N_h1, N_h2>>),
      Words(<<W_iperfudp, V_10, N_h1, N_zz>>),
      Words(<<W_xterm, N_zz, N_h1>>),
      Words(<<W_gterm, N_zz>>),
      Words(<<W_x, N_zz>>),
      Words(<<W_x, N_h1>>),
      Words(<<W_switch, N_zz, W_start>>),
      Words(<<W_switch, N_s1, W_start>>),
      Words(<<W_switch, N_h1, W_stop>>),
      Words(<<W_addhost, N_h9, KV(K_ip, BlockIP(9)), KV(K_mac, MAC_09)>>),
      W_dump }

-----------------------------------------------------------------------------
(* Line handling *)

\* CLI.precmd: cut the line at the first '#'
Precmd(line) == IF Contains(line, "#") THEN SplitAll(line, "#")[1] ELSE line

\* Cmd.parseline: strip, take the leading run of identifier characters as the
\* command word, the stripped remainder as the argument text.  cmd = <<>>
\* stands for both None and ''
Parseline(line) ==
    LET l == Strip(line)
        i == RunIn(l, IdentChars)
    IN  IF l = <<>> \/ l[1] = "!"
        THEN [cmd |-> <<>>, arg |-> <<>>, line |-> l]
        ELSE IF l[1] = "?"
        THEN [cmd |-> <<"h", "e", "l", "p">>, arg |-> Strip(Tail(l)), line |-> l]
        ELSE [cmd |-> Take(l, i), arg |-> Strip(Drop(l, i)), line |-> l]

\* MatchIP with a range check on every octet added
MatchIP_Range(value) ==
    LET parts == SplitAll(value, ".")
    IN  /\ Len(parts) = 4
        /\ \A i \in 1..4 : /\ Len(parts[i]) \in 1..3
                           /\ AllIn(parts[i], DigitChars)
                           /\ StrToInt(parts[i]) <= 255

\* re.match(r'^(\d{1,3}\.){3}\d{1,3}$', value)
MatchIP(value) ==
    LET parts == SplitAll(value, ".")
    IN  /\ Len(parts) = 4
        /\ \A i \in 1..4 : /\ Len(parts[i]) \in 1..3
                           /\ AllIn(parts[i], DigitChars)

\* MatchMAC with the character class of the octets dropped
MatchMAC_AnyChars(value) ==
    LET parts == SplitAll(value, ":")
    IN  /\ Len(parts) = 6
        /\ \A i \in 1..6 : Len(parts[i]) = 2

\* re.match(r'^([0-9a-fA-F]{2}:){5}[0-9a-fA-F]{2}$', value)
MatchMAC(value) ==
    LET parts == SplitAll(value, ":")
    IN  /\ Len(parts) = 6
        /\ \A i \in 1..6 : /\ Len(parts[i]) = 2
                           /\ AllIn(parts[i], HexChars)

-----------------------------------------------------------------------------
(* Python values handed to the engine, and messages *)

PyStr(s) == [t |-> "str", v |-> s]
PyClass(s) == [t |-> "class", v |-> s]

\* d[k] = v on a dict d
SetKey(d, k, v) == [x \in (DOMAIN d) \cup {k} |-> IF x = k THEN v ELSE d[x]]

EmptyDict == [x \in {} |-> PyStr(<<>>)]

Err(id) == [lvl |-> "error", id |-> id]
Out(id) == [lvl |-> "output", id |-> id]

HasError(ms) == \E i \in 1..Len(ms) : ms[i].lvl = "error"

HasMsg(ms, m) == \E i \in 1..Len(ms) : ms[i] = m

\* values of self.inputFile: None, a path string, or the file object of the
\* do_source frame h
FNone == [kind |-> "none", path |-> <<>>, h |-> 0]
FStr(path) == [kind |-> "str", path |-> path, h |-> 0]
FFile(path, h) == [kind |-> "file", path |-> path, h |-> h]

-----------------------------------------------------------------------------
(* The emulation engine, self.mn, at its interface *)

Net == [n2n |-> nameToNode, hosts |-> hosts, links |-> links]

\* Mininet.addHost( name, **params ): fails on a name that exists or when the
\* engine cannot build the node (fail); otherwise registers the host
EngineAddHost(net, name, params, fail) ==
    IF name \in DOMAIN net.n2n \/ fail
    THEN [ok |-> FALSE, net |-> net]
    ELSE [ok |-> TRUE,
          net |-> [net EXCEPT
                     !.n2n = SetKey(net.n2n, name,
                                    [kind |-> "host",
                                     ip |-> params[K_ip].v,
                                     mac |-> params[K_mac].v]),
                     !.hosts = Append(net.hosts, name)]]

\* Host.setIP( ip )
EngineSetIP(net, name, ip) == [net EXCEPT !.n2n[name].ip = ip]

\* Mininet.addLink( node1, node2, **params ): fails on an unknown name
EngineAddLink(net, n1, n2, params) ==
    IF n1 \notin DOMAIN net.n2n \/ n2 \notin DOMAIN net.n2n
    THEN [ok |-> FALSE, net |-> net]
    ELSE [ok |-> TRUE,
          net |-> [net EXCEPT
                     !.links = Append(net.links,
                                      [n1 |-> n1, n2 |-> n2,
                                       params |-> params, status |-> W_up])]]

\* Mininet.configLinkStatus( src, dst, status ): sets the status of every
\* link between src and dst
EngineConfigLinkStatus(net, src, dst, status) ==
    [net EXCEPT
       !.links = [i \in 1..Len(net.links) |->
                    IF {net.links[i].n1, net.links[i].n2} = {src, dst}
                    THEN [net.links[i] EXCEPT !.status = status]
                    ELSE net.links[i]]]

\* Intf.updateIP() on the default interface of a node: the address the
\* node has, '' (None) when none is assigned
UpdateIP(net, name) == net.n2n[name].ip

\* Node.sendCmd( cmd ): a node runs one foreground command at a time; the
\* call is refused on a node that is still waiting, otherwise the command
\* starts and the node's waiting flag is set.  w is the set of the names of
\* the waiting nodes
EngineSendCmd(w, name) == [ok |-> name \notin w, waiting |-> w \cup {name}]

\* Node.monitor(): reads the output that is available; output that ends
\* the command ("done") clears the waiting flag
EngineMonitor(w, name, data) == IF data = "done" THEN w \ {name} ELSE w

\* Node.sendInt() followed by Node.waitOutput(): the interrupted command
\* ends, its remaining output is read and the waiting flag clears
EngineWaitOutput(w, name) == w \ {name}

-----------------------------------------------------------------------------
(* Return from a handler *)

\* normal return: control goes back to the caller (the read-loop or the
\* do_source loop), which continues at npc.  `before` keeps the engine state
\* the handler started from
\* `waitingBefore` keeps the waiting flags the handler started from; w is
\* the set of waiting nodes it leaves
ReturnW(net, ms, cs, stk, npc, inf, w) ==
    /\ nameToNode' = net.n2n
    /\ hosts' = net.hosts
    /\ links' = net.links
    /\ msgs' = ms
    /\ calls' = cs
    /\ raised' = "none"
    /\ before' = Net
    /\ waitingBefore' = waiting
    /\ waiting' = w
    /\ stack' = stk
    /\ pc' = npc
    /\ inputFile' = inf
    /\ top' = top

Return(net, ms, cs, stk, npc, inf) == ReturnW(net, ms, cs, stk, npc, inf, waiting)

\* an exception that no frame catches: every `with` on the way out closes
\* its file, and neither do_source nor run() catches it
Raise(net, ms, cs, exc) ==
    /\ nameToNode' = net.n2n
    /\ hosts' = net.hosts
    /\ links' = net.links
    /\ msgs' = ms
    /\ calls' = cs
    /\ raised' = exc
    /\ before' = Net
    /\ waitingBefore' = waiting
    /\ waiting' = waiting
    /\ stack' = <<>>
    /\ pc' = "crashed"
    /\ inputFile' = inputFile
    /\ top' = top

-----------------------------------------------------------------------------
(* Topology mutator: do_addhost, do_addlink *)

Call(op, a, b, params) == [op |-> op, a |-> a, b |-> b, params |-> params]

CountCalls(cs, op) == Cardinality({i \in 1..Len(cs) : cs[i].op = op})

\* the parameter loop of do_addhost; stops at the first bad parameter
RECURSIVE ParseHostParams(_, _)
ParseHostParams(args, params) ==
    IF args = <<>> THEN [ok |-> TRUE, err |-> Err("none"), params |-> params]
    ELSE IF ~Contains(args[1], "=") THEN ParseHostParams(Tail(args), params)
    ELSE LET key == SplitFirst(args[1], "=")[1]
             value == SplitFirst(args[1], "=")[2]
         IN  IF key = K_ip
             THEN IF ~MatchIP(value)
                  THEN [ok |-> FALSE, err |-> Err("invalid_ip"), params |-> params]
                  ELSE ParseHostParams(Tail(args), SetKey(params, K_ip, PyStr(value)))
             ELSE IF key = K_mac
             THEN IF ~MatchMAC(value)
                  THEN [ok |-> FALSE, err |-> Err("invalid_mac"), params |-> params]
                  ELSE ParseHostParams(Tail(args), SetKey(params, K_mac, PyStr(value)))
             ELSE IF key = K_cls
             THEN ParseHostParams(Tail(args),
                                  SetKey(params, K_cls, PyClass(<<"H", "o", "s", "t">>)))
             ELSE [ok |-> FALSE, err |-> Err("unknown_param"), params |-> params]

\* existing_ips: the last octets, as integers, of the host addresses that
\* split into four parts starting '10', '0', '0'
ExistingIPs(net) ==
    LET Parts(i) == SplitAll(net.n2n[net.hosts[i]].ip, ".")
    IN  { StrToInt(Parts(i)[4]) :
            i \in { j \in 1..Len(net.hosts) :
                      /\ net.n2n[net.hosts[j]].ip # <<>>
                      /\ Len(Parts(j)) = 4
                      /\ Take(Parts(j), 3) = <<<<"1", "0">>, <<"0">>, <<"0">>>>
                      /\ Parts(j)[4] # <<>>
                      /\ AllIn(Parts(j)[4], DigitChars) } }

\* next_ip = n; while next_ip in existing_ips: next_ip += 1
RECURSIVE ScanIP(_, _)
ScanIP(n, used) == IF n \in used THEN ScanIP(n + 1, used) ELSE n

\* NextIP taken from the host count instead of the first gap
NextIP_Count(net) == Len(net.hosts) + 1

NextIP(net) == ScanIP(1, ExistingIPs(net))

\* the address defaults of do_addhost
AutoIP(net, params) ==
    IF K_ip \in DOMAIN params THEN params
    ELSE SetKey(params, K_ip, PyStr(BlockPrefix \o IntToStr(NextIP(net))))

AutoMAC(net, params) ==
    IF K_mac \in DOMAIN params THEN params
    ELSE SetKey(params, K_mac,
                PyStr(<<"0", "0", ":", "0", "0", ":", "0", "0", ":",
                        "0", "0", ":", "0", "0", ":">> \o Hex02(Len(net.hosts) + 1)))

\* NameExists looking at the host list only
NameExists_HostsOnly(net, name) == \E i \in 1..Len(net.hosts) : net.hosts[i] = name

\* hostname in self.mn.nameToNode
NameExists(net, name) == name \in DOMAIN net.n2n

\* do_addhost.  The first addHost call is inside the try (a failure is
\* reported), the second, at line 545, is not; setIP follows it.  f1 and f2
\* say whether the engine fails to build the node at the first and at the
\* second call.  The closing addHostToEtcHosts call is wrapped in a bare
\* except and changes nothing here
DoAddHost(arg, ctx) ==
    LET args == Split(arg)
        hostname == args[1]
        parsed == ParseHostParams(Tail(args), EmptyDict)
        params == AutoMAC(Net, AutoIP(Net, parsed.params))
        c == Call("addHost", hostname, <<>>, params)
    IN  IF Len(args) < 1
        THEN Return(Net, <<Err("usage_addhost")>>, <<>>, ctx.stk, ctx.npc, inputFile)
        ELSE IF NameExists(Net, hostname)
        THEN Return(Net, <<Err("already_exists")>>, <<>>, ctx.stk, ctx.npc, inputFile)
        ELSE IF ~parsed.ok
        THEN Return(Net, <<parsed.err>>, <<>>, ctx.stk, ctx.npc, inputFile)
        ELSE /\ Len(hosts) + Len(links) < MaxEntities
             /\ \E f1, f2 \in BOOLEAN :
                  LET first == EngineAddHost(Net, hostname, params, f1)
                      second == EngineAddHost(first.net, hostname, params, f2)
                      ms == IF first.ok
                            THEN <<Out("added_host"), Out("isolated")>>
                            ELSE <<Err("failed_add")>>
                  IN  IF ~second.ok
                      THEN Raise(second.net, ms, <<c, c>>, "EngineError")
                      ELSE Return(EngineSetIP(second.net, hostname, params[K_ip].v),
                                  ms,
                                  <<c, c, Call("setIP", hostname, params[K_ip].v,
                                               EmptyDict)>>,
                                  ctx.stk, ctx.npc, inputFile)

\* the parameter loop of do_addlink
RECURSIVE ParseLinkParams(_, _)
ParseLinkParams(args, params) ==
    IF args = <<>> THEN params
    ELSE IF ~Contains(args[1], "=") THEN ParseLinkParams(Tail(args), params)
    ELSE ParseLinkParams(Tail(args),
                         SetKey(params, SplitFirst(args[1], "=")[1],
                                PyStr(SplitFirst(args[1], "=")[2])))

DoAddLink(arg, ctx) ==
    LET args == Split(arg)
        params == ParseLinkParams(Drop(args, 2), EmptyDict)
        res == EngineAddLink(Net, args[1], args[2], params)
        c == Call("addLink", args[1], args[2], params)
    IN  IF Len(args) < 2
        THEN Return(Net, <<Err("usage_addlink")>>, <<>>, ctx.stk, ctx.npc, inputFile)
        ELSE IF ~res.ok
        THEN Raise(Net, <<>>, <<c>>, "EngineError")
        ELSE /\ Len(hosts) + Len(links) < MaxEntities
             /\ Return(res.net, <<>>, <<c>>, ctx.stk, ctx.npc, inputFile)

-----------------------------------------------------------------------------
(* do_link, do_exit, default *)

\* ValidState with the membership test dropped
ValidState_Any(s) == s # <<>>

\* args[ 2 ] in [ 'up', 'down' ]
ValidState(s) == s \in {W_up, W_down}

DoLink(arg, ctx) ==
    LET args == Split(arg)
    IN  IF Len(args) # 3
        THEN Return(Net, <<Err("link_args")>>, <<>>, ctx.stk, ctx.npc, inputFile)
        ELSE IF ~ValidState(args[3])
        THEN Return(Net, <<Err("link_type")>>, <<>>, ctx.stk, ctx.npc, inputFile)
        ELSE Return(EngineConfigLinkStatus(Net, args[1], args[2], args[3]), <<>>,
                    <<Call("configLinkStatus", args[1], args[2],
                           SetKey(EmptyDict, <<"s", "t", "a", "t", "u", "s">>,
                                  PyStr(args[3])))>>,
                    ctx.stk, ctx.npc, inputFile)

\* the loop over the node names of do_iperf and do_iperfudp: one error
\* message for every name that is not in the network
RECURSIVE NotInNetwork(_, _)
NotInNetwork(net, args) ==
    IF args = <<>> THEN <<>>
    ELSE (IF args[1] \in DOMAIN net.n2n THEN <<>> ELSE <<Err("not_in_network")>>)
         \o NotInNetwork(net, Tail(args))

\* do_iperf: the engine's test runs only when both names are known
DoIperf(arg, ctx) ==
    LET args == Split(arg)
        errs == NotInNetwork(Net, args)
    IN  IF args = <<>>
        THEN Return(Net, <<>>, <<Call("iperf", <<>>, <<>>, EmptyDict)>>,
                    ctx.stk, ctx.npc, inputFile)
        ELSE IF Len(args) = 2
        THEN Return(Net, errs,
                    IF errs = <<>>
                    THEN <<Call("iperf", args[1], args[2], EmptyDict)>>
                    ELSE <<>>,
                    ctx.stk, ctx.npc, inputFile)
        ELSE Return(Net, <<Err("iperf_args")>>, <<>>, ctx.stk, ctx.npc, inputFile)

\* do_iperfudp: args[ 0 ] is the bandwidth, args[ 1:3 ] the node names
DoIperfUdp(arg, ctx) ==
    LET args == Split(arg)
        errs == NotInNetwork(Net, SubSeq(args, 2, 3))
        udp == SetKey(SetKey(EmptyDict, <<"l", "4", "T", "y", "p", "e">>,
                             PyStr(<<"U", "D", "P">>)),
                      <<"u", "d", "p", "B", "w">>, PyStr(args[1]))
    IN  IF args = <<>>
        THEN Return(Net, <<>>,
                    <<Call("iperf", <<>>, <<>>,
                           SetKey(EmptyDict, <<"l", "4", "T", "y", "p", "e">>,
                                  PyStr(<<"U", "D", "P">>)))>>,
                    ctx.stk, ctx.npc, inputFile)
        ELSE IF Len(args) = 3
        THEN Return(Net, errs,
                    IF errs = <<>>
                    THEN <<Call("iperf", args[2], args[3], udp)>>
                    ELSE <<>>,
                    ctx.stk, ctx.npc, inputFile)
        ELSE Return(Net, <<Err("iperfudp_args")>>, <<>>, ctx.stk, ctx.npc, inputFile)

\* the loop of do_xterm: an error for a name that is not in the network, a
\* terminal for every other name
RECURSIVE XtermScan(_, _, _)
XtermScan(net, args, term) ==
    IF args = <<>> THEN [ms |-> <<>>, cs |-> <<>>]
    ELSE LET r == XtermScan(net, Tail(args), term)
         IN  IF args[1] \notin DOMAIN net.n2n
             THEN [ms |-> <<Err("not_in_network")>> \o r.ms, cs |-> r.cs]
             ELSE [ms |-> r.ms,
                   cs |-> <<Call("makeTerms", args[1], term, EmptyDict)>> \o r.cs]

\* do_xterm, and do_gterm with term = 'gterm'.  The terminals started are
\* kept in self.mn.terms, which nothing else in the console reads
DoXterm(arg, term, ctx) ==
    LET args == Split(arg)
        r == XtermScan(Net, args, term)
    IN  IF args = <<>>
        THEN Return(Net, <<Err("usage_xterm")>>, <<>>, ctx.stk, ctx.npc, inputFile)
        ELSE Return(Net, r.ms, r.cs, ctx.stk, ctx.npc, inputFile)

\* do_x: self.mn[ args[ 0 ] ] is looked up with no membership test, so a
\* name that is not in the network raises KeyError
DoX(arg, ctx) ==
    LET args == Split(arg)
    IN  IF args = <<>>
        THEN Return(Net, <<Err("usage_x")>>, <<>>, ctx.stk, ctx.npc, inputFile)
        ELSE IF args[1] \notin DOMAIN nameToNode
        THEN Raise(Net, <<>>, <<>>, "KeyError")
        ELSE Return(Net, <<>>,
                    <<Call("runX11", args[1], Join(Tail(args), SP), EmptyDict)>>,
                    ctx.stk, ctx.npc, inputFile)

\* do_switch
DoSwitch(arg, ctx) ==
    LET args == Split(arg)
        sw == args[1]
        command == args[2]
    IN  IF Len(args) # 2
        THEN Return(Net, <<Err("switch_args")>>, <<>>, ctx.stk, ctx.npc, inputFile)
        ELSE IF sw \notin DOMAIN nameToNode \/ nameToNode[sw].kind # "switch"
        THEN Return(Net, <<Err("invalid_switch")>>, <<>>, ctx.stk, ctx.npc, inputFile)
        ELSE IF command = W_start
        THEN Return(Net, <<>>, <<Call("start", sw, <<>>, EmptyDict)>>,
                    ctx.stk, ctx.npc, inputFile)
        ELSE IF command = W_stop
        THEN Return(Net, <<>>, <<Call("stop", sw, <<>>, EmptyDict)>>,
                    ctx.stk, ctx.npc, inputFile)
        ELSE Return(Net, <<Err("switch_command")>>, <<>>, ctx.stk, ctx.npc, inputFile)

\* Mininet.values(): the nodes in the order hosts, switches, controllers
Values(net) ==
    net.hosts \o SelectSeq(<<N_s1, N_c0>>, LAMBDA n : n \in DOMAIN net.n2n)

\* repr( node ): the node's name with its address and hardware address
NodeRepr(net, name) ==
    [lvl |-> "output", id |-> "node", name |-> name,
     ip |-> net.n2n[name].ip, mac |-> net.n2n[name].mac]

\* do_dump: one line of output for every node, nothing else
DoDump(ctx) ==
    Return(Net, [i \in 1..Len(Values(Net)) |-> NodeRepr(Net, Values(Net)[i])],
           <<>>, ctx.stk, ctx.npc, inputFile)

\* do_exit returns the sentinel; cmdloop stops on it, do_source ignores the
\* value onecmd returns
DoExit(ctx) ==
    Return(Net, <<>>, <<>>, ctx.stk,
           IF ctx.mode = "interactive" THEN "exited" ELSE ctx.npc, inputFile)

\* SubstIP putting the address in even when the node has none
SubstIP_Always(net, arg) == IF arg \in DOMAIN net.n2n THEN UpdateIP(net, arg) ELSE arg

\* self.mn[ arg ].defaultIntf().updateIP() or arg if arg in self.mn else arg
SubstIP(net, arg) ==
    IF arg \in DOMAIN net.n2n
    THEN IF UpdateIP(net, arg) # <<>> THEN UpdateIP(net, arg) ELSE arg
    ELSE arg

\* NoArgs never finding the argument text empty
NoArgs_Never(args) == FALSE

\* not args
NoArgs(args) == args = <<>>

\* default: a line whose first word is a node name is a command for that
\* node; the argument text is split at single blanks, node names in it are
\* replaced by addresses, the text is joined again and sent to the node,
\* and control passes to waitForNode.  Any other line is an unknown command
Default(line, ctx) ==
    LET p == Parseline(line)
        first == p.cmd
        args == SplitAll(p.arg, " ")
        rest == Join([i \in 1..Len(args) |-> SubstIP(Net, args[i])], SP)
        c == Call("sendCmd", first, rest, EmptyDict)
        sent == EngineSendCmd(waiting, first)
    IN  IF first \in DOMAIN nameToNode
        THEN IF NoArgs(p.arg)
             THEN Return(Net, <<Err("no_node_command")>>, <<>>, ctx.stk, ctx.npc, inputFile)
             ELSE IF ~sent.ok
             THEN Raise(Net, <<>>, <<c>>, "EngineError")
             ELSE ReturnW(Net, <<>>, <<c>>, ctx.stk, "waitForNode", inputFile,
                          sent.waiting)
        ELSE Return(Net, <<Err("unknown_command")>>, <<>>, ctx.stk, ctx.npc, inputFile)

-----------------------------------------------------------------------------
(* Batch source reader: do_source *)

\* control after the do_source frame on top of stk has returned
AfterPop(stk) == IF stk # <<>> THEN "batch"
                 ELSE IF top = "script" THEN "exited" ELSE "postcmd"

\* self.inputFile.close() when self.inputFile is the file of frame h <= Len(stk)
CloseIn(stk, h) == [i \in 1..Len(stk) |->
                      IF i = h THEN [stk[i] EXCEPT !.open = FALSE] ELSE stk[i]]

\* do_source up to the first readline.  open() either raises IOError, which
\* is reported, after which lines 366-367 run on whatever self.inputFile was
\* bound to before; or it binds self.inputFile to the new file and the
\* read loop is entered
DoSource(arg, ctx) ==
    LET args == Split(arg)
        path == args[1]
    IN  IF Len(args) # 1
        THEN Return(Net, <<Err("usage_source")>>, <<>>, ctx.stk, ctx.npc, inputFile)
        ELSE IF FileKind(path) = "missing"
        THEN IF inputFile.kind = "file"
             THEN Return(Net, <<Err("error_reading")>>, <<>>,
                         CloseIn(ctx.stk, inputFile.h), ctx.npc, FNone)
             ELSE Raise(Net, <<Err("error_reading")>>, <<>>, "AttributeError")
        ELSE Return(Net, <<>>, <<>>,
                    Append(ctx.stk, [path |-> path, pos |-> 1, open |-> TRUE,
                                     mode |-> ctx.mode]),
                    "batch", FFile(path, Len(ctx.stk) + 1))

-----------------------------------------------------------------------------
(* Cmd.onecmd *)

Dispatch(line, ctx) ==
    LET p == Parseline(line)
    IN  /\ last' = [mode |-> ctx.mode, line |-> line, cmd |-> p.cmd, arg |-> p.arg]
        /\ nodeStdin' = <<>>
        /\ consumed' = <<>>
        /\ waitErrs' = <<>>
        /\ UNCHANGED <<tty, stdin, nodeStdout, procVars>>
        /\ IF p.line = <<>>
           THEN Return(Net, <<>>, <<>>, ctx.stk, ctx.npc, inputFile)
           ELSE IF p.cmd = W_addhost THEN DoAddHost(p.arg, ctx)
           ELSE IF p.cmd = W_addlink THEN DoAddLink(p.arg, ctx)
           ELSE IF p.cmd = W_link THEN DoLink(p.arg, ctx)
           ELSE IF p.cmd = W_source THEN DoSource(p.arg, ctx)
           ELSE IF p.cmd \in {W_exit, W_quit} THEN DoExit(ctx)
           ELSE IF p.cmd = W_iperf THEN DoIperf(p.arg, ctx)
           ELSE IF p.cmd = W_iperfudp THEN DoIperfUdp(p.arg, ctx)
           ELSE IF p.cmd = W_xterm THEN DoXterm(p.arg, W_xterm, ctx)
           ELSE IF p.cmd = W_gterm THEN DoXterm(p.arg, W_gterm, ctx)
           ELSE IF p.cmd = W_x THEN DoX(p.arg, ctx)
           ELSE IF p.cmd = W_switch THEN DoSwitch(p.arg, ctx)
           ELSE IF p.cmd = W_dump THEN DoDump(ctx)
           ELSE Default(line, ctx)

-----------------------------------------------------------------------------
(* Actions *)

\* AlreadyInited never finding the flag set
AlreadyInited_Never(flag) == FALSE

\* if cls.readlineInited: return
AlreadyInited(flag) == flag

\* initReadline: the first call in the process sets the class flag; if the
\* readline module can be imported the history file, when there is one, is
\* read, and writeHistory is registered with atexit
InitReadline ==
    /\ IF AlreadyInited(readlineInited)
       THEN UNCHANGED <<readlineInited, historyLoads, exitHooks>>
       ELSE /\ readlineInited' = TRUE
            /\ IF ~hasReadline
               THEN UNCHANGED <<historyLoads, exitHooks>>
               ELSE /\ historyLoads' = historyLoads + (IF hasHistory THEN 1 ELSE 0)
                    /\ exitHooks' = exitHooks + 1
    /\ UNCHANGED <<hasReadline, hasHistory>>

\* CLI.__init__ from line 67: replay the script and return, or set up
\* readline and start the read-loop
Start ==
    /\ pc = "init"
    /\ IF inputFile.kind = "str"
       THEN /\ last' = [mode |-> "script", line |-> inputFile.path,
                        cmd |-> W_source, arg |-> inputFile.path]
            /\ DoSource(inputFile.path, [mode |-> "script", stk |-> <<>>, npc |-> "exited"])
            /\ UNCHANGED procVars
       ELSE /\ last' = last
            /\ InitReadline
            /\ Return(Net, <<>>, <<>>, <<>>, "run", inputFile)
    /\ UNCHANGED <<tty, stdin, nodeStdin, nodeStdout, consumed, waitErrs>>

\* one pass of cmdloop: read a line, precmd, onecmd
Interactive(line) ==
    /\ pc = "prompt"
    /\ Dispatch(Precmd(line), [mode |-> "interactive", stk |-> <<>>, npc |-> "postcmd"])

NoCommand == [mode |-> "none", line |-> <<>>, cmd |-> <<>>, arg |-> <<>>]

\* the handler has returned to cmdloop, or cmdloop has just been entered:
\* cmdloop goes on to the next prompt, and what the last command did is no
\* longer recorded.  Characters left unread on the console become part of
\* the line that is read next
Postcmd ==
    /\ pc \in {"postcmd", "cmdloop"}
    /\ last' = NoCommand
    /\ Return(Net, <<>>, <<>>, stack, "prompt", inputFile)
    /\ stdin' = <<>>
    /\ nodeStdin' = <<>>
    /\ consumed' = <<>>
    /\ waitErrs' = <<>>
    /\ UNCHANGED <<tty, nodeStdout, procVars>>

\* one pass of the `while True` of do_source: readline on self.inputFile,
\* then onecmd on the line, or leave the loop
BatchStep ==
    /\ pc = "batch"
    /\ LET n == Len(stack)
           frame == stack[n]
           h == inputFile.h
           popped == Take(stack, n - 1)
           ret == [mode |-> frame.mode, line |-> frame.path,
                   cmd |-> W_source, arg |-> frame.path]
       IN  IF inputFile.kind # "file"
           THEN /\ last' = ret
                /\ Raise(Net, <<>>, <<>>, "AttributeError")
                /\ UNCHANGED <<tty, stdin, nodeStdin, nodeStdout, consumed, waitErrs,
                               procVars>>
           ELSE IF ~stack[h].open
           THEN /\ last' = ret
                /\ Raise(Net, <<>>, <<>>, "ValueError")
                /\ UNCHANGED <<tty, stdin, nodeStdin, nodeStdout, consumed, waitErrs,
                               procVars>>
           ELSE IF FileKind(stack[h].path) = "readerr"
           THEN /\ last' = ret
                /\ Return(Net, <<Err("error_reading")>>, <<>>,
                          CloseIn(popped, h), AfterPop(popped), FNone)
                /\ UNCHANGED <<tty, stdin, nodeStdin, nodeStdout, consumed, waitErrs,
                               procVars>>
           ELSE IF stack[h].pos > Len(FileLines(stack[h].path))
           THEN /\ last' = ret
                /\ Return(Net, <<>>, <<>>, CloseIn(popped, h), AfterPop(popped), FNone)
                /\ UNCHANGED <<tty, stdin, nodeStdin, nodeStdout, consumed, waitErrs,
                               procVars>>
           ELSE Dispatch(FileLines(stack[h].path)[stack[h].pos],
                         [mode |-> "batch",
                          stk |-> [stack EXCEPT ![h].pos = @ + 1],
                          npc |-> "batch"])

-----------------------------------------------------------------------------
(* run(): the loop around cmdloop *)

\* StillWaiting finding no node to stop
StillWaiting_None(w) == {}

\* the nodes that the loop of lines 109-113 finds with node.waiting set
StillWaiting(w) == w

\* one pass of `while node.waiting` for a node that is waiting: sendInt,
\* then waitOutput, which reads what the node still writes
RunStop ==
    /\ pc = "run"
    /\ \E node \in StillWaiting(waiting) :
         /\ calls' = calls \o <<Call("sendInt", node, <<>>, EmptyDict),
                                Call("waitOutput", node, <<>>, EmptyDict)>>
         /\ waiting' = EngineWaitOutput(waiting, node)
    /\ nodeStdout' = "none"
    /\ UNCHANGED <<pc, top, inputFile, stack, nameToNode, hosts, links, last,
                   before, msgs, raised, waitingBefore, tty, stdin, nodeStdin,
                   consumed, waitErrs, procVars>>

\* lines 114-116: no node is found waiting; a terminal is set back to
\* `stty echo sane intr ^C`, and cmdloop is entered
RunCmdloop ==
    /\ pc = "run"
    /\ StillWaiting(waiting) = {}
    /\ tty' = IF tty = "notty" THEN "notty" ELSE "sane"
    /\ pc' = "cmdloop"
    /\ UNCHANGED <<top, inputFile, stack, nameToNode, hosts, links, last, before,
                   calls, msgs, raised, waiting, waitingBefore, stdin, nodeStdin,
                   nodeStdout, consumed, waitErrs, procVars>>

\* the operator's interrupt key while cmdloop reads a line: KeyboardInterrupt
\* leaves cmdloop, run() prints 'Interrupt' and starts its loop again
PromptInterrupt ==
    /\ pc = "prompt"
    /\ Return(Net, <<Out("interrupt")>>, <<>>, <<>>, "run", inputFile)
    /\ UNCHANGED <<last, tty, stdin, nodeStdin, nodeStdout, consumed, waitErrs,
                   procVars>>

-----------------------------------------------------------------------------
(* waitForNode *)

\* the node that waitForNode was called for
WaitNode == last.cmd

\* where control goes when waitForNode returns: default returns to onecmd,
\* and onecmd to cmdloop or to the loop of do_source
AfterWait == IF last.mode = "interactive" THEN "postcmd" ELSE "batch"

\* characters the operator types, in the order typed
KeyChars == <<"a", "b", "c", "d">>

\* the wait errors with errno EINTR among errs
Retried(errs) == SelectSeq(errs, LAMBDA e : e = "EINTR")

\* how many events have disturbed the command that is running: characters
\* typed, interrupt keys and failed waits
KeysTyped == Len(consumed) + Len(stdin) + CountCalls(calls, "sendInt")
             + Len(Retried(waitErrs))

\* lines 588-597: the pollers are made, and a terminal is put into
\* character-at-a-time mode with `stty -icanon min 1`
WaitSetup ==
    /\ pc = "waitForNode"
    /\ tty' = IF tty = "notty" THEN "notty" ELSE "-icanon"
    /\ pc' = "poll"
    /\ UNCHANGED <<top, inputFile, stack, nameToNode, hosts, links, last, before,
                   calls, msgs, raised, waiting, waitingBefore, stdin, nodeStdin,
                   nodeStdout, consumed, waitErrs, procVars>>

\* the interrupt key between sendCmd and the `try` of line 598: the
\* KeyboardInterrupt leaves waitForNode, default and every do_source on the
\* way (each `with` closes its file without resetting self.inputFile).
\* run() catches it; a console that was built with a script has no run()
\* around it
SetupInterrupt ==
    /\ pc = "waitForNode"
    /\ IF top = "cmdloop"
       THEN Return(Net, <<Out("interrupt")>>, calls, <<>>, "run", inputFile)
       ELSE Raise(Net, <<>>, calls, "KeyboardInterrupt")
    /\ UNCHANGED <<last, tty, stdin, nodeStdin, nodeStdout, consumed, waitErrs,
                   procVars>>

\* poller.poll( 0 ) on a poller with one descriptor: the list of
\* ( fd, mask ) pairs, empty when nothing is ready
Poll0(fd, readable) == IF readable THEN <<[fd |-> fd, pollin |-> TRUE]>> ELSE <<>>

\* IsReadable never seeing input
IsReadable_Never(events) == FALSE

\* isReadable: decided by the first pair of the list; no pair, no input
IsReadable(events) == events # <<>> /\ events[1].pollin

\* lines 600-611: bothPoller.poll() returns when the console or the node can
\* be read; if the console is readable one character is read from it
\* (`consumed` keeps the characters read so far, the last one being `key`)
WaitPoll ==
    /\ pc = "poll"
    /\ stdin # <<>> \/ nodeStdout # "none"
    /\ IF IsReadable(Poll0("stdin", stdin # <<>>))
       THEN /\ consumed' = Append(consumed, Head(stdin))
            /\ stdin' = Tail(stdin)
            /\ pc' = "writeKey"
       ELSE /\ UNCHANGED <<stdin, consumed>>
            /\ pc' = "readNode"
    /\ UNCHANGED <<top, inputFile, stack, nameToNode, hosts, links, last, before,
                   calls, msgs, raised, waiting, waitingBefore, tty, nodeStdin,
                   nodeStdout, waitErrs, procVars>>

\* line 612: node.write( key )
WaitWrite ==
    /\ pc = "writeKey"
    /\ nodeStdin' = Append(nodeStdin, consumed[Len(consumed)])
    /\ pc' = "readNode"
    /\ UNCHANGED <<top, inputFile, stack, nameToNode, hosts, links, last, before,
                   calls, msgs, raised, waiting, waitingBefore, tty, stdin,
                   nodeStdout, consumed, waitErrs, procVars>>

\* LoopDone leaving the loop whatever the flag says
LoopDone_Always(w, node) == TRUE

\* if not node.waiting: break
LoopDone(w, node) == node \notin w

\* lines 613-617: if the node is readable its output is read and printed
\* (the text printed is the node's and is not recorded); the loop is left
\* when the node no longer waits
WaitRead ==
    /\ pc = "readNode"
    /\ LET readable == IsReadable(Poll0("node", nodeStdout # "none"))
           w == IF readable THEN EngineMonitor(waiting, WaitNode, nodeStdout)
                ELSE waiting
       IN  /\ nodeStdout' = IF readable THEN "none" ELSE nodeStdout
           /\ waiting' = w
           /\ pc' = IF LoopDone(w, WaitNode) THEN AfterWait ELSE "poll"
    /\ UNCHANGED <<top, inputFile, stack, nameToNode, hosts, links, last, before,
                   calls, msgs, raised, waitingBefore, tty, stdin, nodeStdin,
                   consumed, waitErrs, procVars>>

\* lines 618-622: the interrupt key inside the `try`, at any point of a
\* pass: KeyboardInterrupt is caught, the node is sent an interrupt, and the
\* loop starts its next pass.  k is the number of events the operator and
\* the system are allowed for one command
WaitInterrupt(k) ==
    /\ pc \in {"poll", "writeKey", "readNode"}
    /\ KeysTyped < k
    /\ calls' = Append(calls, Call("sendInt", WaitNode, <<>>, EmptyDict))
    /\ pc' = "poll"
    /\ UNCHANGED <<top, inputFile, stack, nameToNode, hosts, links, last, before,
                   msgs, raised, waiting, waitingBefore, tty, stdin, nodeStdin,
                   nodeStdout, consumed, waitErrs, procVars>>

\* the error numbers a failed wait may carry
Errnos == {"EINTR", "EBADF"}

\* IsEINTR taking every error for an interrupted call
IsEINTR_Always(errno) == TRUE

\* errno_ != errno.EINTR, negated
IsEINTR(errno) == errno = "EINTR"

\* lines 623-629: one of the poll calls of a pass (600, 610, 613) raises
\* select.error.  With EINTR nothing is done; any other error is reported
\* and the node is sent an interrupt.  Either way the loop starts its next
\* pass
WaitError(k) ==
    /\ pc \in {"poll", "readNode"}
    /\ KeysTyped < k
    /\ \E errno \in Errnos :
         /\ waitErrs' = Append(waitErrs, errno)
         /\ IF IsEINTR(errno)
            THEN UNCHANGED <<msgs, calls>>
            ELSE /\ msgs' = Append(msgs, Err("select_error"))
                 /\ calls' = Append(calls, Call("sendInt", WaitNode, <<>>, EmptyDict))
    /\ pc' = "poll"
    /\ UNCHANGED <<top, inputFile, stack, nameToNode, hosts, links, last, before,
                   raised, waiting, waitingBefore, tty, stdin, nodeStdin,
                   nodeStdout, consumed, procVars>>

\* the operator types a character while the node command runs
KeyTyped(k) ==
    /\ pc \in {"poll", "writeKey", "readNode"}
    /\ KeysTyped < k
    /\ stdin' = Append(stdin, KeyChars[KeysTyped + 1])
    /\ UNCHANGED <<pc, top, inputFile, stack, nameToNode, hosts, links, last,
                   before, calls, msgs, raised, waiting, waitingBefore, tty,
                   nodeStdin, nodeStdout, consumed, waitErrs, procVars>>

\* the command running on the node writes output: more is to come ("data"),
\* or this is the end of the command ("done")
NodeOutput ==
    /\ pc \in {"poll", "writeKey", "readNode"}
    /\ WaitNode \in waiting
    /\ nodeStdout = "none"
    /\ nodeStdout' \in {"data", "done"}
    /\ UNCHANGED <<pc, top, inputFile, stack, nameToNode, hosts, links, last,
                   before, calls, msgs, raised, waiting, waitingBefore, tty,
                   stdin, nodeStdin, consumed, waitErrs, procVars>>

-----------------------------------------------------------------------------
(* Initial states: a built network and a console just constructed *)

\* addresses the two hosts of the initial topology may have ('' = none
\* assigned)
InitIPs1 == {BlockIP(1), IP_other}
InitIPs2 == {BlockIP(k) : k \in 2..MaxSuffix} \cup {<<>>, IP_pad}

ScriptPaths == {P_f, P_g, P_r, P_n, P_e, P_o}

InitNode(kind, ip, mac) == [kind |-> kind, ip |-> ip, mac |-> mac]

Init ==
    /\ pc = "init"
    /\ inputFile \in {FNone} \cup {FStr(p) : p \in ScriptPaths}
    /\ top = IF inputFile = FNone THEN "cmdloop" ELSE "script"
    /\ stack = <<>>
    /\ \E ip1 \in InitIPs1, ip2 \in InitIPs2 :
            nameToNode = SetKey(SetKey(SetKey(SetKey(
                           [x \in {} |-> InitNode("host", <<>>, <<>>)],
                           N_h1, InitNode("host", ip1, <<>>)),
                           N_h2, InitNode("host", ip2, <<>>)),
                           N_s1, InitNode("switch", <<>>, <<>>)),
                           N_c0, InitNode("controller", <<>>, <<>>))
    /\ hosts = <<N_h1, N_h2>>
    /\ links = <<[n1 |-> N_h1, n2 |-> N_s1, params |-> EmptyDict, status |-> W_up]>>
    /\ last = NoCommand
    /\ before = Net
    /\ calls = <<>>
    /\ msgs = <<>>
    /\ raised = "none"
    /\ waiting \in {{}, {N_h2}}
    /\ waitingBefore = waiting
    /\ tty = "sane"
    /\ stdin = <<>>
    /\ nodeStdin = <<>>
    /\ nodeStdout = "none"
    /\ consumed = <<>>
    /\ waitErrs = <<>>
    /\ readlineInited = FALSE
    /\ historyLoads = 0
    /\ exitHooks = 0
    /\ hasReadline = TRUE
    /\ hasHistory = TRUE

Next ==
    \/ Start
    \/ \E line \in InputLines : Interactive(line)
    \/ Postcmd
    \/ BatchStep
    \/ RunStop
    \/ RunCmdloop
    \/ PromptInterrupt
    \/ WaitSetup
    \/ SetupInterrupt
    \/ WaitPoll
    \/ WaitWrite
    \/ WaitRead
    \/ WaitInterrupt(MaxKeys)
    \/ KeyTyped(MaxKeys)
    \/ NodeOutput

\* one console on a network, its input a terminal, with every command of
\* the operator, in a process whose waits no signal cuts short
Spec == Init /\ [][Next]_vars

-----------------------------------------------------------------------------
(* Node sessions, and consoles built one after another in one process *)

SessionScripts == {P_e, P_h}

\* the caller builds another console on the same network, after the
\* constructor of the previous one has returned or raised; the class flag
\* of initReadline and what atexit holds are the process's and stay
Construct ==
    /\ pc \in {"exited", "crashed"}
    /\ pc' = "init"
    /\ inputFile' \in {FNone} \cup {FStr(p) : p \in SessionScripts}
    /\ top' = IF inputFile' = FNone THEN "cmdloop" ELSE "script"
    /\ stack' = <<>>
    /\ last' = NoCommand
    /\ before' = Net
    /\ calls' = <<>>
    /\ msgs' = <<>>
    /\ raised' = "none"
    /\ waitingBefore' = waiting
    /\ stdin' = <<>>
    /\ nodeStdin' = <<>>
    /\ consumed' = <<>>
    /\ waitErrs' = <<>>
    /\ UNCHANGED <<nameToNode, hosts, links, waiting, tty, nodeStdout, procVars>>

\* the lines the operator types in the sessions: a node command, a batch
\* file with a node command, and exit
SessionLines ==
    { Words(<<N_h1, W_ping, N_h2>>) \o SP \o SP \o Words(<<N_s1, N_zz>>),
      Words(<<W_source, P_e>>),
      W_exit }

SessionInit ==
    /\ pc = "init"
    /\ inputFile \in {FNone} \cup {FStr(p) : p \in SessionScripts}
    /\ top = IF inputFile = FNone THEN "cmdloop" ELSE "script"
    /\ stack = <<>>
    /\ nameToNode = SetKey(SetKey(SetKey(SetKey(
                       [x \in {} |-> InitNode("host", <<>>, <<>>)],
                       N_h1, InitNode("host", BlockIP(1), <<>>)),
                       N_h2, InitNode("host", BlockIP(2), <<>>)),
                       N_s1, InitNode("switch", <<>>, <<>>)),
                       N_c0, InitNode("controller", <<>>, <<>>))
    /\ hosts = <<N_h1, N_h2>>
    /\ links = <<[n1 |-> N_h1, n2 |-> N_s1, params |-> EmptyDict, status |-> W_up]>>
    /\ last = NoCommand
    /\ before = Net
    /\ calls = <<>>
    /\ msgs = <<>>
    /\ raised = "none"
    /\ waiting = {}
    /\ waitingBefore = waiting
    /\ tty \in {"notty", "sane"}
    /\ stdin = <<>>
    /\ nodeStdin = <<>>
    /\ nodeStdout = "none"
    /\ consumed = <<>>
    /\ waitErrs = <<>>
    /\ readlineInited = FALSE
    /\ historyLoads = 0
    /\ exitHooks = 0
    /\ hasReadline \in BOOLEAN
    /\ hasHistory \in BOOLEAN

SessionNext ==
    \/ Start
    \/ \E line \in SessionLines : Interactive(line)
    \/ Postcmd
    \/ BatchStep
    \/ RunStop
    \/ RunCmdloop
    \/ PromptInterrupt
    \/ WaitSetup
    \/ SetupInterrupt
    \/ WaitPoll
    \/ WaitWrite
    \/ WaitRead
    \/ WaitInterrupt(MaxEvents)
    \/ WaitError(MaxEvents)
    \/ KeyTyped(MaxEvents)
    \/ NodeOutput
    \/ Construct

\* the console is one thread: a pass of the wait loop that can go on does
\* go on (poll() returns once the console or the node can be read)
SessionFair == WF_vars(WaitPoll) /\ WF_vars(WaitWrite) /\ WF_vars(WaitRead)

\* consoles built one after another on one network, with the operator
\* running node commands
SessionSpec == SessionInit /\ [][SessionNext]_vars /\ SessionFair

-----------------------------------------------------------------------------
(* Properties *)

\* the tokens of the argument text of the line dispatched last
LastArgs == Split(last.arg)

\* the last handler to finish was `source <path>` on a file that cannot be
\* opened or read, given at the prompt or as the console's script
SourceUnreadableDone ==
    /\ last.cmd = W_source
    /\ last.mode \in {"interactive", "script"}
    /\ pc # "batch"
    /\ Len(LastArgs) = 1
    /\ FileKind(LastArgs[1]) \in {"missing", "readerr"}

\* C1: `source <path>` on a file that cannot be opened or read reports the
\* error, raises nothing out of the handler, and leaves the console running
\* with no batch file bound.
C1_SourceErrorRecovered ==
    SourceUnreadableDone =>
        /\ HasMsg(msgs, Err("error_reading"))
        /\ raised = "none"
        /\ pc # "crashed"
        /\ inputFile = FNone

\* C2: every line that is dispatched, typed at the prompt or replayed by
\* `source`, has had the text from the first '#' on removed.
C2_CommentsStrippedEverywhere ==
    last.mode \in {"interactive", "batch"} => ~Contains(last.line, "#")

\* C3: a successful addhost performs exactly one host construction through
\* the engine and one address assignment.
C3_OneConstruction ==
    (last.cmd = W_addhost /\ HasMsg(msgs, Out("added_host"))) =>
        /\ CountCalls(calls, "addHost") = 1
        /\ CountCalls(calls, "setIP") = 1

\* C4: addhost on a name already in the Registry (host, switch or
\* controller) fails with the duplicate-name error, calls nothing in the
\* engine and leaves the Registry as it was.
C4_DuplicateNameRejected ==
    (/\ last.cmd = W_addhost
     /\ LastArgs # <<>>
     /\ LastArgs[1] \in DOMAIN before.n2n)
    => (/\ msgs = <<Err("already_exists")>>
        /\ calls = <<>>
        /\ raised = "none"
        /\ Net = before)

C4_Witness ==
    /\ last.cmd = W_addhost
    /\ LastArgs # <<>>
    /\ LastArgs[1] = N_s1
    /\ before.n2n[N_s1].kind = "switch"
    /\ msgs = <<Err("already_exists")>>

\* the number k when ip is an address '10.0.0.k' of the private block, else 0
BlockSuffix(ip) ==
    IF /\ Len(ip) > Len(BlockPrefix)
       /\ Take(ip, Len(BlockPrefix)) = BlockPrefix
       /\ AllIn(Drop(ip, Len(BlockPrefix)), DigitChars)
    THEN StrToInt(Drop(ip, Len(BlockPrefix)))
    ELSE 0

\* suffix k was used by the address of some host when the handler started
SuffixUsed(k) ==
    \E i \in 1..Len(before.hosts) : BlockSuffix(before.n2n[before.hosts[i]].ip) = k

\* no ip=... token among the parameters
NoIPToken(args) == \A i \in 2..Len(args) : Take(args[i], 3) # K_ip \o <<"=">>

\* C5: addhost of a new name with no ip parameter hands the engine the
\* address 10.0.0.k, k being the lowest positive suffix that no existing
\* host's address uses.
C5_LowestFreeSuffix ==
    (/\ last.cmd = W_addhost
     /\ calls # <<>>
     /\ NoIPToken(LastArgs))
    => \E k \in 1..(Len(before.hosts) + 1) :
          /\ ~SuffixUsed(k)
          /\ \A j \in 1..(k - 1) : SuffixUsed(j)
          /\ calls[1].op = "addHost"
          /\ calls[1].params[K_ip] = PyStr(BlockPrefix \o IntToStr(k))

\* with suffixes 1 and 3 in use the first gap, 2, is assigned
C5_Witness ==
    /\ last.cmd = W_addhost
    /\ LastArgs = <<N_h3>>
    /\ calls # <<>>
    /\ before.n2n[N_h1].ip = BlockIP(1)
    /\ before.n2n[N_h2].ip = BlockIP(3)
    /\ calls[1].params[K_ip] = PyStr(BlockIP(2))

\* C6 as stated: `addhost x ip=10.0.0.999` fails validation, an error is
\* reported and no host is added.
C6_Original ==
    (last.cmd = W_addhost /\ LastArgs = <<N_x, KV(K_ip, IP_999)>>) =>
        /\ HasError(msgs)
        /\ calls = <<>>
        /\ Net = before

\* C6 amended: `addhost x ip=10.0.0.999` for a new name x passes the address
\* check, which is one of form only: no format error is reported and the
\* engine's host constructor is called with ip 10.0.0.999.
C6_FormOnly ==
    (/\ last.cmd = W_addhost
     /\ LastArgs = <<N_x, KV(K_ip, IP_999)>>
     /\ N_x \notin DOMAIN before.n2n)
    => (/\ ~HasMsg(msgs, Err("invalid_ip"))
        /\ calls # <<>>
        /\ calls[1].op = "addHost"
        /\ calls[1].a = N_x
        /\ calls[1].params[K_ip] = PyStr(IP_999))

C6_Witness ==
    /\ last.cmd = W_addhost
    /\ LastArgs = <<N_x, KV(K_ip, IP_999)>>
    /\ N_x \notin DOMAIN before.n2n
    /\ calls # <<>>
    /\ calls[1].params[K_ip] = PyStr(IP_999)
    /\ N_x \in DOMAIN nameToNode
    /\ nameToNode[N_x].ip = IP_999

\* four dot-separated groups of 1-3 digits
FourDigitGroups(v) ==
    \E i, j, k \in 1..Len(v) :
        /\ i < j /\ j < k
        /\ {n \in 1..Len(v) : v[n] = "."} = {i, j, k}
        /\ \A n \in (1..Len(v)) \ {i, j, k} : v[n] \in DigitChars
        /\ (i - 1) \in 1..3
        /\ (j - i - 1) \in 1..3
        /\ (k - j - 1) \in 1..3
        /\ (Len(v) - k) \in 1..3

\* six colon-separated octets of two hex digits
SixHexOctets(v) ==
    /\ Len(v) = 17
    /\ \A n \in 1..17 : IF n % 3 = 0 THEN v[n] = ":" ELSE v[n] \in HexChars

\* some parameter token is ip=<v> or mac=<v> with v not of the required form
BadAddressToken(args) ==
    \E i \in 2..Len(args) :
        \/ /\ Take(args[i], 3) = K_ip \o <<"=">>
           /\ ~FourDigitGroups(Drop(args[i], 3))
        \/ /\ Take(args[i], 4) = K_mac \o <<"=">>
           /\ ~SixHexOctets(Drop(args[i], 4))

\* C7: addhost with an ip or mac value not of the required form reports an
\* error, never calls the engine's host constructor and leaves the Registry
\* unchanged.
C7_BadAddressNoEffect ==
    (last.cmd = W_addhost /\ BadAddressToken(LastArgs))
    => (/\ HasError(msgs)
        /\ CountCalls(calls, "addHost") = 0
        /\ raised = "none"
        /\ nameToNode = before.n2n
        /\ hosts = before.hosts)

C7_Witness ==
    /\ last.cmd = W_addhost
    /\ LastArgs = <<N_x, KV(K_mac, MAC_bad)>>
    /\ msgs = <<Err("invalid_mac")>>
    /\ N_x \notin DOMAIN nameToNode

\* C8: `addlink a b bw=10 delay=5ms` passes the link constructor exactly
\* {bw: 10, delay: "5ms"}, bw as a number and delay as a string.
C8_TypedLinkParams ==
    (/\ last.cmd = W_addlink
     /\ calls # <<>>
     /\ Drop(LastArgs, 2) = <<KV(K_bw, V_10), KV(K_delay, V_5ms)>>)
    => (/\ DOMAIN calls[1].params = {K_bw, K_delay}
        /\ calls[1].params[K_delay] = PyStr(V_5ms)
        /\ calls[1].params[K_bw].t = "num"
        /\ calls[1].params[K_bw].v = 10)

\* C9: addlink with an endpoint name that is not in the Registry reports an
\* error, registers no link and lets no exception out of the handler.
C9_UnknownEndpointReported ==
    (/\ last.cmd = W_addlink
     /\ Len(LastArgs) >= 2
     /\ \E i \in 1..2 : LastArgs[i] \notin DOMAIN nameToNode)
    => (/\ HasError(msgs)
        /\ raised = "none"
        /\ pc # "crashed")

\* C10: `link` with a state token other than up or down, or with other than
\* three arguments, reports an error and never calls the engine's
\* link-status operation; no link changes.
C10_BadLinkNoEffect ==
    (/\ last.cmd = W_link
     /\ \/ Len(LastArgs) # 3
        \/ LastArgs[3] \notin {W_up, W_down})
    => (/\ HasError(msgs)
        /\ CountCalls(calls, "configLinkStatus") = 0
        /\ raised = "none"
        /\ links = before.links)

C10_Witness ==
    /\ last.cmd = W_link
    /\ LastArgs = <<N_h1, N_s1, W_sideways>>
    /\ msgs = <<Err("link_type")>>
    /\ \E i \in 1..Len(links) : links[i].status = W_down

\* the command words that have a handler of their own
Builtins == {W_addhost, W_addlink, W_link, W_source, W_exit, W_quit, W_iperf,
             W_iperfudp, W_xterm, W_gterm, W_x, W_switch, W_dump}

\* the line dispatched last was a registered name and nothing else
NameOnlyLine ==
    /\ last.mode \in {"interactive", "batch"}
    /\ last.cmd \in DOMAIN before.n2n
    /\ Strip(last.line) = last.cmd

SentCommand ==
    /\ last.mode \in {"interactive", "batch"}
    /\ last.cmd \in DOMAIN before.n2n
    /\ calls # <<>>
    /\ calls[1].op = "sendCmd"

\* C12: in a node command every argument token that is a registered name
\* is replaced by that node's address when it has one and is passed
\* through unchanged when it has none; every other token is unchanged;
\* the number and the order of the tokens are kept.
C12_NamesSubstituted ==
    SentCommand =>
        LET toks == SplitAll(last.arg, " ")
            sent == SplitAll(calls[1].b, " ")
        IN  /\ calls[1].a = last.cmd
            /\ Len(sent) = Len(toks)
            /\ \A i \in 1..Len(toks) :
                  sent[i] = IF /\ toks[i] \in DOMAIN before.n2n
                               /\ before.n2n[toks[i]].ip # <<>>
                            THEN before.n2n[toks[i]].ip
                            ELSE toks[i]

\* `h1 ping h2  s1 zz`: h2 has an address, the switch s1 has none, zz is no
\* name, and the empty token between the two blanks is kept
C12_Witness ==
    /\ SentCommand
    /\ last.cmd = N_h1
    /\ before.n2n[N_h2].ip = BlockIP(2)
    /\ calls[1].b = Words(<<W_ping, BlockIP(2)>>) \o SP \o SP \o Words(<<N_s1, N_zz>>)

\* the operator's interrupt key was used while waitForNode waited for the
\* node command of the line dispatched last
InterruptedInWait ==
    /\ SentCommand
    /\ \E i \in 2..Len(calls) : calls[i].op = "sendInt"
    /\ ~HasMsg(msgs, Out("interrupt"))

C14_TerminalRestored ==
    (tty # "notty" /\ pc \notin {"poll", "writeKey", "readNode"}) => tty = "sane"

\* C15 as stated: a character typed at the console while a node command is
\* active is delivered to the node before the next read of node output, so
\* no read of node output happens while a typed character is undelivered.
C15_Original ==
    [][(pc = "readNode" /\ nodeStdout # "none" /\ nodeStdout' = "none")
         => stdin = <<>>]_vars

\* C15 amended: a character that is readable on the console when a pass of
\* the wait loop tests the console is read in that pass and, if the pass
\* gets that far, written to the node before the pass reads node output (a
\* character typed later in the pass waits for the next pass); characters
\* are read only when the console is readable, one at a time and in the
\* order typed, and node output is read only by the step that found the
\* node readable.
C15_ForwardedFirstInPass ==
    [][/\ (pc = "poll" /\ pc' # "poll" /\ stdin # <<>>)
           => (/\ pc' = "writeKey"
               /\ consumed' = Append(consumed, Head(stdin))
               /\ stdin' = Tail(stdin)
               /\ nodeStdout' = nodeStdout)
       /\ (pc = "writeKey" /\ pc' = "readNode")
           => (/\ nodeStdin' = Append(nodeStdin, consumed[Len(consumed)])
               /\ nodeStdout' = nodeStdout)
       /\ (Len(nodeStdin') > Len(nodeStdin))
           => (pc = "writeKey" /\ pc' = "readNode")
       /\ (/\ pc \in {"poll", "writeKey", "readNode"}
           /\ nodeStdout # "none"
           /\ nodeStdout' = "none")
           => (pc = "readNode" /\ nodeStdin' = nodeStdin /\ stdin' = stdin)]_vars

\* the character typed has been written to the node in this pass, and the
\* node's output is still to be read
C15_Witness ==
    /\ pc = "readNode"
    /\ nodeStdin = <<"a">>
    /\ stdin = <<>>
    /\ nodeStdout = "data"
    /\ last.cmd \in waiting

\* C16: whenever default sends a command to a node, that node was not
\* waiting at that moment.
C16_NoSecondCommand ==
    (/\ calls # <<>>
     /\ calls[Len(calls)].op = "sendCmd"
     /\ pc = "waitForNode" \/ raised = "EngineError")
    => calls[1].a \notin waitingBefore

\* the lines of the file that the loop of do_source frame h has read so far
LinesRead(h) == SubSeq(FileLines(stack[h].path), 1, stack[h].pos - 1)

\* C17: an `exit` or `quit` line replayed by `source` ends the processing of
\* the file at that line: no line after it is read and dispatched.
C17_ExitEndsBatch ==
    \A h \in 1..Len(stack) :
        \A j \in 1..(Len(LinesRead(h)) - 1) :
            Parseline(LinesRead(h)[j]).cmd \notin {W_exit, W_quit}

\* C18: every time run() enters cmdloop, at the start or again after an
\* operator interrupt, no node is waiting, and every node that was waiting
\* when run() began its pass has been sent an interrupt.
C18_NoNodeWaitingAtCmdloop ==
    pc = "cmdloop" =>
        /\ waiting = {}
        /\ \A node \in waitingBefore :
              \E i \in 1..Len(calls) :
                  calls[i] = Call("sendInt", node, <<>>, EmptyDict)

\* cmdloop is entered again after an interrupt that left h1 waiting
C18_Witness ==
    /\ pc = "cmdloop"
    /\ HasMsg(msgs, Out("interrupt"))
    /\ waitingBefore = {N_h1}
    /\ waiting = {}

\* the node names among the arguments of a handler that takes node names
NodeArgs ==
    IF last.cmd = W_iperf /\ Len(LastArgs) = 2 THEN {LastArgs[1], LastArgs[2]}
    ELSE IF last.cmd = W_iperfudp /\ Len(LastArgs) = 3 THEN {LastArgs[2], LastArgs[3]}
    ELSE IF last.cmd \in {W_xterm, W_gterm} THEN {LastArgs[i] : i \in 1..Len(LastArgs)}
    ELSE IF last.cmd = W_x /\ Len(LastArgs) >= 1 THEN {LastArgs[1]}
    ELSE IF last.cmd = W_switch /\ Len(LastArgs) = 2 THEN {LastArgs[1]}
    ELSE {}

\* C19: iperf, iperfudp, xterm, gterm, x and switch, given a name that is
\* not in the Registry, report an error, call no engine operation for that
\* name, and return without raising.
C19_UnknownNodeReported ==
    (/\ last.mode \in {"interactive", "batch"}
     /\ \E name \in NodeArgs : name \notin DOMAIN before.n2n)
    => (/\ HasError(msgs)
        /\ \A i \in 1..Len(calls) : calls[i].a \in DOMAIN before.n2n
        /\ raised = "none"
        /\ pc # "crashed")

\* C20: when the engine's host constructor fails during addhost, the failure
\* is reported, no further construction and no address assignment is
\* attempted, nothing is raised, and the read-loop goes on.
C20_ConstructionFailureRecovered ==
    (last.cmd = W_addhost /\ HasMsg(msgs, Err("failed_add")))
    => (/\ CountCalls(calls, "addHost") = 1
        /\ CountCalls(calls, "setIP") = 0
        /\ raised = "none"
        /\ pc # "crashed"
        /\ Net = before)

\* the line `addhost h9 ip=10.0.0.9 mac=00:00:00:00:00:09` was dispatched
\* last, on a Registry without h9
AddedH9 ==
    /\ last.cmd = W_addhost
    /\ LastArgs = <<N_h9, KV(K_ip, BlockIP(9)), KV(K_mac, MAC_09)>>
    /\ N_h9 \notin DOMAIN before.n2n

\* what `dump` prints in the current state
DumpOutput == [i \in 1..Len(Values(Net)) |-> NodeRepr(Net, Values(Net)[i])]

\* C21: after `addhost h9 ip=10.0.0.9 mac=00:00:00:00:00:09` on a Registry
\* without h9 the console is still running, and `dump` lists h9 with
\* exactly that address and hardware address.
C21_AddhostDumpRoundTrip ==
    AddedH9 =>
        /\ raised = "none"
        /\ pc # "crashed"
        /\ \E i \in 1..Len(DumpOutput) :
              /\ DumpOutput[i].name = N_h9
              /\ DumpOutput[i].ip = BlockIP(9)
              /\ DumpOutput[i].mac = MAC_09

\* the file has a `source` line, and every file its `source` lines name can
\* be opened and read
NestsReadable(path) ==
    LET lines == FileLines(path)
        Src(i) == Parseline(Precmd(lines[i]))
    IN  /\ \E i \in 1..Len(lines) : Src(i).cmd = W_source
        /\ \A i \in 1..Len(lines) :
              Src(i).cmd = W_source =>
                  /\ Len(Split(Src(i).arg)) = 1
                  /\ FileKind(Split(Src(i).arg)[1]) = "ok"

\* C27: when a file replayed by `source` contains a `source` line for a
\* readable file, the outer replay goes on after the inner one and ends
\* without raising; the batch file stays bound until the outermost replay
\* has ended.
C27_NestedSourceContinues ==
    /\ (/\ last.cmd = W_source
        /\ Len(LastArgs) = 1
        /\ NestsReadable(LastArgs[1]))
       => raised = "none"
    /\ \A h \in 1..Len(stack) :
          (NestsReadable(stack[h].path) /\ pc = "batch") => inputFile.kind = "file"

\* C22: no two nodes have their waiting flag set at the same time, and
\* waitForNode returns to its caller only when the node it waited for no
\* longer waits.
C22_AtMostOneWaiting ==
    /\ Cardinality(waiting) <= 1
    /\ (SentCommand /\ pc \in {"postcmd", "batch"}) => last.cmd \notin waiting

\* control is inside the loop of waitForNode
InWaitLoop == pc \in {"poll", "writeKey", "readNode"}

\* C23: once the last output of the node's command can be read, the wait
\* loop is left and control is back with the caller of waitForNode (the
\* read-loop, or the loop of do_source), whatever keys, interrupts and
\* failed waits come in between.
C23_WaitEnds ==
    (InWaitLoop /\ nodeStdout = "done")
        ~> (pc \in {"postcmd", "batch"} /\ last.cmd \notin waiting)

\* the loop was left after an interrupted wait and an interrupt key
C23_Witness ==
    /\ SentCommand
    /\ pc = "postcmd"
    /\ last.cmd \notin waiting
    /\ waitErrs = <<"EINTR">>
    /\ CountCalls(calls, "sendInt") = 1

\* C24: in the wait loop a failed wait with EINTR is retried, with no
\* interrupt sent to the node and nothing reported; a failed wait with any
\* other error is reported and an interrupt is sent to the node waited for;
\* in both cases the loop goes on waiting.
C24_WaitErrorHandled ==
    [][Len(waitErrs') > Len(waitErrs) =>
         /\ InWaitLoop
         /\ pc' = "poll"
         /\ raised' = "none"
         /\ waiting' = waiting
         /\ IF waitErrs'[Len(waitErrs')] = "EINTR"
            THEN calls' = calls /\ msgs' = msgs
            ELSE /\ msgs' = Append(msgs, Err("select_error"))
                 /\ calls' = Append(calls,
                                    Call("sendInt", last.cmd, <<>>, EmptyDict))]_vars

\* a wait interrupted by a signal and a wait that failed otherwise, the
\* second one reported and passed on to the node
C24_Witness ==
    /\ pc = "poll"
    /\ last.cmd \in waiting
    /\ waitErrs = <<"EINTR", "EBADF">>
    /\ msgs = <<Err("select_error")>>
    /\ calls[Len(calls)] = Call("sendInt", last.cmd, <<>>, EmptyDict)
    /\ CountCalls(calls, "sendInt") = 1

\* C25 as stated: however many consoles are built, the history file is
\* loaded at most once, and once an interactive console has been started
\* exactly one exit hook is registered.
C25_Original ==
    /\ historyLoads <= 1
    /\ (top = "cmdloop" /\ pc # "init") => exitHooks = 1

\* C25 amended: however many consoles are built, the history file is loaded
\* at most once and the exit hook is registered at most once; once an
\* interactive console has been started the hook is registered exactly once
\* if the readline module can be imported and not at all if it cannot, and
\* the history has been loaded exactly when the module and the history file
\* both exist; a console built with a script sets up neither.
C25_HistoryInitOnce ==
    /\ historyLoads <= 1
    /\ exitHooks <= 1
    /\ readlineInited =>
          /\ exitHooks = (IF hasReadline THEN 1 ELSE 0)
          /\ historyLoads = (IF hasReadline /\ hasHistory THEN 1 ELSE 0)
    /\ (top = "cmdloop" /\ pc # "init") => readlineInited
    /\ ~readlineInited => (exitHooks = 0 /\ historyLoads = 0)

\* an interactive console has just been started on a terminal that an
\* earlier console of the process left in character mode; the process
\* still holds one hook and one load
C25_Witness ==
    /\ readlineInited
    /\ top = "cmdloop"
    /\ pc = "run"
    /\ msgs = <<>>
    /\ tty = "-icanon"
    /\ hasReadline /\ hasHistory
    /\ exitHooks = 1
    /\ historyLoads = 1

\* C26: the characters the wait loop has read from the console are the
\* characters it has written to the node, each once and in the order read,
\* but for the one character a pass has read and is about to write.
C26_KeysForwardedOnce ==
    SentCommand =>
        nodeStdin = IF pc = "writeKey"
                    THEN Take(consumed, Len(consumed) - 1)
                    ELSE consumed

====
